---- MODULE Spec2Model ----
(***************************************************************************)
(* Model of bdvmi::XenDriver (src/src/bdvmixendriver.cpp): register        *)
(* translation, MTRR resolution, page protection, guest memory mapping     *)
(* with the guest-virtual address cache.                                   *)
(*                                                                         *)
(* 64-bit machine words are modelled exactly as the set of their set bit   *)
(* positions (a subset of 0..63), so masks, shifts and wrap-around are     *)
(* those of the C++ code.  Small values (types, table indexes) are Nat.    *)
(***************************************************************************)
EXTENDS Integers, Naturals, Sequences, FiniteSets, TLC

(***************************************************************************)
(* Machine words                                                           *)
(***************************************************************************)
U64 == 0 .. 63

\* The word whose value is the natural number n (n < 2^31).
BitsOf(n) == { i \in 0 .. 30 : (n \div (2 ^ i)) % 2 = 1 }

RECURSIVE ValOf(_)
\* The value of a word that fits a natural number (no bit above 30).
ValOf(w) == IF w = {} THEN 0
            ELSE LET i == CHOOSE j \in w : TRUE IN (2 ^ i) + ValOf(w \ {i})

BitAnd(a, b) == a \cap b
BitOr(a, b) == a \cup b
BitNot(a, width) == (0 .. (width - 1)) \ a
Trunc(a, width) == { i \in a : i < width }
ShiftRight(a, k) == { i - k : i \in { j \in a : j >= k } }
ShiftLeft(a, k, width) == { i + k : i \in { j \in a : j + k < width } }

RECURSIVE AddCarry(_, _, _, _, _)
\* Ripple-carry sum of a and b from bit i upwards, modulo 2^width.
AddCarry(a, b, i, carry, width) ==
    IF i >= width THEN {}
    ELSE LET n == (IF i \in a THEN 1 ELSE 0) + (IF i \in b THEN 1 ELSE 0) + carry
         IN  (IF n % 2 = 1 THEN {i} ELSE {}) \cup AddCarry(a, b, i + 1, n \div 2, width)

Add(a, b, width) == AddCarry(a, b, 0, 0, width)
Neg(a, width) == Add(BitNot(a, width), {0}, width)
Sub(a, b, width) == Add(a, Neg(b, width), width)

\* Unsigned comparison of two words.
Less(a, b) ==
    LET d == (a \ b) \cup (b \ a)
    IN  d # {} /\ (CHOOSE i \in d : \A j \in d : j <= i) \in b
LessEq(a, b) == a = b \/ Less(a, b)

(***************************************************************************)
(* Program constants                                                       *)
(***************************************************************************)
XC_PAGE_SHIFT == 12
XC_PAGE_MASK == 12 .. 63                \* ~(XC_PAGE_SIZE - 1)
MTRR_PHYSMASK_VALID_BIT == 11
MTRR_PHYSMASK_SHIFT == 12
MTRR_PHYSBASE_TYPE_MASK == 0 .. 7
X86_CR0_PE == BitsOf(1)
X86_EFLAGS_VM == BitsOf(131072)
EFER_LMA == BitsOf(1024)
CS_AR_BYTES_L == BitsOf(512)
CS_AR_BYTES_D == BitsOf(1024)
MTRR_TYPE_UNCACHABLE == 0
MTRR_TYPE_WRTHROUGH == 4
\* __XEN_LATEST_INTERFACE_VERSION__ values the file is written for.
XEN_4_3 == 262912
XEN_4_4 == 263168
XEN_4_5 == 263424
XEN_4_6 == 263680
XenVersions == { XEN_4_3, XEN_4_4, XEN_4_5, XEN_4_6 }

\* Words of the literals the code uses.
W_1 == BitsOf(1)
W_2 == BitsOf(2)
W_0x800 == BitsOf(2048)
W_0xff == BitsOf(255)
W_0xaf == BitsOf(175)
W_0xbf == BitsOf(191)
W_0x100000 == BitsOf(1048576)

paddr_to_pfn(pa) == ShiftRight(pa, XC_PAGE_SHIFT)

VARIABLES
    xenVersion,     \* __XEN_LATEST_INTERFACE_VERSION__ of the build
    regsLast,       \* last registers() call: return value and the caller's Registers
    addressCache,   \* addressCache_ of each XenDriver: guest virtual address -> gfn
    prefetched,     \* per driver, the frame of each address a cacheGuestVirtAddr call reported cached
    mapLast,        \* last mapping call: arguments, result and the calls it made
    memAccess,      \* the hypervisor's access type of each guest frame
    lastSet,        \* per frame, the triple of the last successful setPageProtection
                    \* not followed by another change of the frame's access type
    accLast,        \* last page protection call: arguments and result
    physAddr_,      \* XenDriver::physAddr_, the host's physical address width
    hwMtrrInit,     \* the function-static flag of mtrrType
    hwMtrr,         \* the function-static MTRR save record of mtrrType
    mtrrFetched,    \* the drivers whose MTRR record fetch succeeded, in order (first two)
    mtrrLast,       \* last mtrrType call: arguments, result and the fetch it made
    msrs_,          \* XenDriver::msrs_, the MSRs whose access exits to the controller
    msrLast,        \* last enableMsrExit / disableMsrExit call: arguments, result and
                    \* msrs_ as the call found it
    guestWidth_,    \* XenDriver::guestWidth_, 4 or 8
    vcpuCtxt,       \* the hypervisor's context of each vcpu, in the layout of guestWidth_
    setLast         \* last setRegisters call: arguments, result, the context it fetched
                    \* and the context it handed to xc_vcpu_setcontext

regsVars == << regsLast >>
mapVars == << addressCache, prefetched, mapLast >>
accVars == << memAccess, lastSet, accLast >>
mtrrVars == << physAddr_, hwMtrrInit, hwMtrr, mtrrFetched, mtrrLast >>
msrVars == << msrs_, msrLast >>
ctxVars == << guestWidth_, vcpuCtxt, setLast >>
vars == << xenVersion, regsLast, addressCache, prefetched, mapLast, memAccess, lastSet, accLast,
          physAddr_, hwMtrrInit, hwMtrr, mtrrFetched, mtrrLast, msrs_, msrLast,
          guestWidth_, vcpuCtxt, setLast >>

(***************************************************************************)
(* Register translator                                                     *)
(***************************************************************************)
\* Values of the CPU save record that the guest can present.
Cr0Values == { {}, BitsOf(1), BitsOf(17), {0, 4, 31} }
RflagsValues == { BitsOf(2), BitsOf(131074), BitsOf(582) }
EferValues == { {}, BitsOf(256), BitsOf(1280) }
CsArbytesValues == { BitsOf(155), BitsOf(667), BitsOf(1179), BitsOf(1691) }
\* hvm_hw_cpu.guest_x86_mode of the interface versions that still carry it.
HwModeValues == { 0, 1, 2, 4, 8 }

HwCpuBlobs == [ cr0 : Cr0Values, rflags : RflagsValues, msr_efer : EferValues,
                cs_arbytes : CsArbytesValues, guest_x86_mode : HwModeValues ]

hvm_long_mode_enabled(regs) == BitAnd(regs.msr_efer, EFER_LMA) # {}

\* guestX86Mode with the default-size test taken before the long-mode test.
guestX86ModeSizeFirst(regs) ==
    IF BitAnd(regs.cr0, X86_CR0_PE) = {} THEN 0
    ELSE IF BitAnd(regs.rflags, X86_EFLAGS_VM) # {} THEN 1
    ELSE IF BitAnd(regs.cs_arbytes, CS_AR_BYTES_D) # {} THEN 4
    ELSE IF hvm_long_mode_enabled(regs) /\ BitAnd(regs.cs_arbytes, CS_AR_BYTES_L) # {} THEN 8
    ELSE 2

guestX86Mode(regs) ==
    IF BitAnd(regs.cr0, X86_CR0_PE) = {} THEN 0
    ELSE IF BitAnd(regs.rflags, X86_EFLAGS_VM) # {} THEN 1
    ELSE IF hvm_long_mode_enabled(regs) /\ BitAnd(regs.cs_arbytes, CS_AR_BYTES_L) # {} THEN 8
    ELSE IF BitAnd(regs.cs_arbytes, CS_AR_BYTES_D) # {} THEN 4 ELSE 2

\* The switch at the end of registers().
CsTypeOf(x86Mode) ==
    CASE x86Mode = 2 -> "CS_TYPE_16"
      [] x86Mode = 4 -> "CS_TYPE_32"
      [] x86Mode = 8 -> "CS_TYPE_64"
      [] OTHER -> "ERROR"

\* The field copies of registers(), for the fields the mode depends on.
CopyHwCpu(hwCpu) ==
    [ cr0 |-> hwCpu.cr0, rflags |-> hwCpu.rflags, msr_efer |-> hwCpu.msr_efer,
      cs_arbytes |-> hwCpu.cs_arbytes, cr8 |-> {} ]

DerivedModeBuild == xenVersion >= XEN_4_4

RegistersResult(hwCpu) ==
    LET regs == CopyHwCpu(hwCpu)
        x86Mode == IF DerivedModeBuild THEN guestX86Mode(regs) ELSE hwCpu.guest_x86_mode
    IN  [ f \in DOMAIN regs \cup {"guest_x86_mode"} |->
            IF f = "guest_x86_mode" THEN CsTypeOf(x86Mode) ELSE regs[f] ]

ZeroRegisters ==
    [ cr0 |-> {}, rflags |-> {}, msr_efer |-> {}, cs_arbytes |-> {}, cr8 |-> {},
      guest_x86_mode |-> "ERROR" ]

RegsInit == regsLast = [ called |-> FALSE, ret |-> FALSE, regs |-> ZeroRegisters ]

\* registers(): the context fetch succeeds and the record is translated.
RegistersOk ==
    /\ \E hwCpu \in HwCpuBlobs :
          regsLast' = [ called |-> TRUE, ret |-> TRUE, regs |-> RegistersResult(hwCpu) ]
    /\ UNCHANGED << xenVersion, ctxVars, msrVars, mapVars, accVars, mtrrVars >>

\* registers(): xc_domain_hvm_getcontext_partial fails, regs is left alone.
RegistersFail ==
    /\ regsLast' = [ regsLast EXCEPT !.called = TRUE, !.ret = FALSE ]
    /\ UNCHANGED << xenVersion, ctxVars, msrVars, mapVars, accVars, mtrrVars >>

(***************************************************************************)
(* Address mapper and guest-virtual address cache (one XenDriver)          *)
(***************************************************************************)
MaxVcpu == 1
Vcpus == 0 .. MaxVcpu
MaxGfn == 2

\* Results of xc_translate_foreign_address: a frame number, 0 on failure.
TranslateResults == { BitsOf(g) : g \in 0 .. MaxGfn }

\* 0xFFF, 0x1000 and 0xFFFF800000000002.
MapAddresses == { 0 .. 11, {12}, {1} \cup (47 .. 63) }
\* 0, 1, 2, 4097 and 2^64 - 1.
MapLengths == { {}, BitsOf(1), BitsOf(2), BitsOf(4097), U64 }

\* 1 and 2: lengths that stay in the page from some address of MapAddresses.
CacheLengths == { BitsOf(1), BitsOf(2) }

\* PageCache::update(gfn, mapped): the code it returns and whether it left a
\* mapping in mapped; "throw" is an exception leaving the call.
PageCacheOutcomes ==
    { [ mrc |-> "MAP_SUCCESS", mapped |-> TRUE ],
      [ mrc |-> "MAP_SUCCESS", mapped |-> FALSE ],
      [ mrc |-> "MAP_PAGE_NOT_PRESENT", mapped |-> FALSE ],
      [ mrc |-> "MAP_INVALID_PARAMETER", mapped |-> FALSE ],
      [ mrc |-> "throw", mapped |-> FALSE ] }

\* The one-page test done with 8 KiB pages.
CrossesPageWide(address, length) ==
    ShiftRight(address, XC_PAGE_SHIFT + 1)
        # ShiftRight(Sub(Add(address, length, 64), BitsOf(1), 64), XC_PAGE_SHIFT + 1)

\* The one-page limit of both mapping calls:
\* ( address & XC_PAGE_MASK ) != ( ( address + length - 1 ) & XC_PAGE_MASK ).
CrossesPage(address, length) ==
    BitAnd(address, XC_PAGE_MASK)
        # BitAnd(Sub(Add(address, length, 64), BitsOf(1), 64), XC_PAGE_MASK)

\* CrossesPage tabulated over the calls of the model.
CrossesPageOf == [ a \in MapAddresses, l \in MapLengths |-> CrossesPage(a, l) ]

\* What follows pageCache_.update in both mapping calls.
MapTail(address, gfn, pc) ==
    IF pc.mrc = "throw" THEN [ ret |-> "MAP_FAILED_GENERIC", pointer |-> "NULL" ]
    ELSE IF pc.mrc # "MAP_SUCCESS" THEN [ ret |-> pc.mrc, pointer |-> "NULL" ]
    ELSE IF ~pc.mapped THEN [ ret |-> "MAP_FAILED_GENERIC", pointer |-> "NULL" ]
    ELSE [ ret |-> "MAP_SUCCESS",
           pointer |-> [ frame |-> gfn, offset |-> BitAnd(address, BitNot(XC_PAGE_MASK, 64)) ] ]

NoCall == [ op |-> "none", address |-> {}, length |-> {}, vcpu |-> 0,
            ret |-> "none", pointer |-> "untouched", translateCalls |-> 0,
            translated |-> {}, updateCalls |-> 0, gfn |-> {} ]

MapInit ==
    /\ addressCache = << >>
    /\ prefetched = << >>
    /\ mapLast = NoCall

MapPhysMemToHost(address, length) ==
    /\ IF CrossesPageOf[address, length]
       THEN mapLast' = [ NoCall EXCEPT !.op = "mapPhys", !.address = address,
                                       !.length = length, !.ret = "MAP_INVALID_PARAMETER" ]
       ELSE \E pc \in PageCacheOutcomes :
              LET gfn == paddr_to_pfn(address)
                  r == MapTail(address, gfn, pc)
              IN  mapLast' = [ NoCall EXCEPT !.op = "mapPhys", !.address = address,
                                             !.length = length, !.ret = r.ret,
                                             !.pointer = r.pointer, !.updateCalls = 1,
                                             !.gfn = gfn ]
    /\ UNCHANGED << xenVersion, ctxVars, msrVars, regsVars, accVars, mtrrVars, addressCache, prefetched >>

\* addressCache_.find( address ) that never finds anything.
CacheFindNothing(cache, address) == FALSE

\* addressCache_.find( address ) != addressCache_.end()
CacheFind(cache, address) == address \in DOMAIN cache

\* A store that keeps only the entry it writes.
CacheStoreFresh(cache, address, gfn) == [ a \in { address } |-> gfn ]

\* addressCache_[address] = gfn
CacheStore(cache, address, gfn) ==
    [ a \in DOMAIN cache \cup {address} |-> IF a = address THEN gfn ELSE cache[a] ]

\* The cache after a lookup miss whose successful translation is stored.
CacheAfterMissStoring(cache, address, gfn) ==
    IF gfn = {} THEN cache ELSE CacheStore(cache, address, gfn)

\* addressCache_ after the lookup miss of mapVirtMemToHost: the else branch
\* translates and stores nothing.
CacheAfterMiss(cache, address, gfn) == cache

MapVirtMemToHost(address, length, vcpu) ==
    IF CrossesPageOf[address, length]
    THEN /\ mapLast' = [ NoCall EXCEPT !.op = "mapVirt", !.address = address,
                                       !.length = length, !.vcpu = vcpu,
                                       !.ret = "MAP_INVALID_PARAMETER" ]
         /\ UNCHANGED << xenVersion, ctxVars, msrVars, regsVars, accVars, mtrrVars, addressCache, prefetched >>
    ELSE LET call == [ NoCall EXCEPT !.op = "mapVirt", !.address = address,
                                     !.length = length, !.vcpu = vcpu, !.pointer = "NULL" ]
         IN  IF CacheFind(addressCache, address)
             THEN /\ \E pc \in PageCacheOutcomes :
                       LET gfn == addressCache[address]
                           r == MapTail(address, gfn, pc)
                       IN  mapLast' = [ call EXCEPT !.ret = r.ret, !.pointer = r.pointer,
                                                    !.updateCalls = 1, !.gfn = gfn ]
                  /\ UNCHANGED << xenVersion, ctxVars, msrVars, regsVars, accVars, mtrrVars, addressCache, prefetched >>
             ELSE \E gfn \in TranslateResults :
                    /\ addressCache' = CacheAfterMiss(addressCache, address, gfn)
                    /\ IF gfn = {}
                       THEN mapLast' = [ call EXCEPT !.ret = "MAP_FAILED_GENERIC",
                                                     !.translateCalls = 1 ]
                       ELSE \E pc \in PageCacheOutcomes :
                              LET r == MapTail(address, gfn, pc)
                              IN  mapLast' = [ call EXCEPT !.ret = r.ret, !.pointer = r.pointer,
                                                           !.translateCalls = 1,
                                                           !.translated = gfn,
                                                           !.updateCalls = 1, !.gfn = gfn ]
                    /\ UNCHANGED << xenVersion, ctxVars, msrVars, regsVars, accVars, mtrrVars, prefetched >>

CacheGuestVirtAddr(address) ==
    /\ \E gfn \in TranslateResults, allocFails \in BOOLEAN :
         LET call == [ NoCall EXCEPT !.op = "cacheVirt", !.address = address,
                                     !.translateCalls = 1, !.translated = gfn ]
         IN  IF gfn = {} \/ (allocFails /\ address \notin DOMAIN addressCache)
             THEN /\ mapLast' = [ call EXCEPT !.ret = FALSE ]
                  /\ UNCHANGED << addressCache, prefetched >>
             ELSE /\ addressCache' = CacheStore(addressCache, address, gfn)
                  /\ prefetched' = [ a \in DOMAIN prefetched \cup {address} |->
                                        IF a = address THEN gfn ELSE prefetched[a] ]
                  /\ mapLast' = [ call EXCEPT !.ret = TRUE ]
    /\ UNCHANGED << xenVersion, ctxVars, msrVars, regsVars, accVars, mtrrVars >>

(***************************************************************************)
(* Memory access permission controller                                     *)
(***************************************************************************)
\* 0x1000, 0x1FFF and 0x10000002000: two addresses of one frame and a third
\* of another.
AccessAddresses == { {12}, 0 .. 12, {13, 40} }
AccessFrames == { paddr_to_pfn(a) : a \in AccessAddresses }

\* access_t values the code names, and one it does not (the default: label).
NamedAccess == { "access_n", "access_r", "access_w", "access_x", "access_rw",
                 "access_rx", "access_wx", "access_rwx", "access_rx2rw" }
HypervisorAccess == NamedAccess \cup { "access_n2rwx" }

\* The if-chain of setPageProtection with the rx and wx targets exchanged.
MemAccessOfSwapped(read, write, execute) ==
    IF read /\ ~write /\ ~execute THEN "access_r"
    ELSE IF ~read /\ write /\ ~execute THEN "access_w"
    ELSE IF ~read /\ ~write /\ execute THEN "access_x"
    ELSE IF read /\ write /\ ~execute THEN "access_rw"
    ELSE IF read /\ ~write /\ execute THEN "access_wx"
    ELSE IF ~read /\ write /\ execute THEN "access_rx"
    ELSE IF read /\ write /\ execute THEN "access_rwx"
    ELSE "access_n"

\* The if-chain of setPageProtection; memaccess starts as access_n.
MemAccessOf(read, write, execute) ==
    IF read /\ ~write /\ ~execute THEN "access_r"
    ELSE IF ~read /\ write /\ ~execute THEN "access_w"
    ELSE IF ~read /\ ~write /\ execute THEN "access_x"
    ELSE IF read /\ write /\ ~execute THEN "access_rw"
    ELSE IF read /\ ~write /\ execute THEN "access_rx"
    ELSE IF ~read /\ write /\ execute THEN "access_wx"
    ELSE IF read /\ write /\ execute THEN "access_rwx"
    ELSE "access_n"

\* The switch of getPageProtection: << read, write, execute >>.
TripleOf(memaccess) ==
    CASE memaccess = "access_r" -> << TRUE, FALSE, FALSE >>
      [] memaccess = "access_w" -> << FALSE, TRUE, FALSE >>
      [] memaccess = "access_rw" -> << TRUE, TRUE, FALSE >>
      [] memaccess = "access_x" -> << FALSE, FALSE, TRUE >>
      [] memaccess = "access_rx" -> << TRUE, FALSE, TRUE >>
      [] memaccess = "access_wx" -> << FALSE, TRUE, TRUE >>
      [] memaccess = "access_rwx" -> << TRUE, TRUE, TRUE >>
      [] memaccess = "access_rx2rw" -> << TRUE, FALSE, TRUE >>
      [] OTHER -> << FALSE, FALSE, FALSE >>

AccNoCall == [ op |-> "none", address |-> {}, ret |-> FALSE,
               triple |-> "untouched", memaccess |-> "none" ]

AccInit ==
    /\ memAccess = [ f \in AccessFrames |-> "access_rwx" ]
    /\ lastSet = << >>
    /\ accLast = AccNoCall

SetPageProtection(guestAddress, read, write, execute) ==
    LET memaccess == MemAccessOf(read, write, execute)
        gfn == paddr_to_pfn(guestAddress)
        call == [ AccNoCall EXCEPT !.op = "set", !.address = guestAddress,
                                   !.triple = << read, write, execute >>,
                                   !.memaccess = memaccess ]
    IN  /\ \/ /\ memAccess' = [ memAccess EXCEPT ![gfn] = memaccess ]
              /\ lastSet' = [ f \in DOMAIN lastSet \cup {gfn} |->
                                IF f = gfn THEN << read, write, execute >> ELSE lastSet[f] ]
              /\ accLast' = [ call EXCEPT !.ret = TRUE ]
           \/ \* set_mem_access fails
              /\ accLast' = [ call EXCEPT !.ret = FALSE ]
              /\ UNCHANGED << memAccess, lastSet >>
        /\ UNCHANGED << xenVersion, ctxVars, msrVars, regsVars, mapVars, mtrrVars >>

GetPageProtection(guestAddress) ==
    LET gfn == paddr_to_pfn(guestAddress)
        call == [ AccNoCall EXCEPT !.op = "get", !.address = guestAddress ]
    IN  /\ \/ accLast' = [ call EXCEPT !.ret = TRUE, !.triple = TripleOf(memAccess[gfn]),
                                       !.memaccess = memAccess[gfn] ]
           \/ \* get_mem_access fails
              accLast' = [ call EXCEPT !.ret = FALSE ]
        /\ UNCHANGED << xenVersion, ctxVars, msrVars, regsVars, mapVars, mtrrVars, memAccess, lastSet >>

\* The hypervisor or another of its clients changes the access type of a
\* frame (the rx2rw upgrade on a guest write is one such change).
AccessChangedElsewhere(gfn, memaccess) ==
    /\ memAccess[gfn] # memaccess
    /\ memAccess' = [ memAccess EXCEPT ![gfn] = memaccess ]
    /\ lastSet' = [ f \in DOMAIN lastSet \ {gfn} |-> lastSet[f] ]
    /\ UNCHANGED << xenVersion, ctxVars, msrVars, regsVars, mapVars, mtrrVars, accLast >>

(***************************************************************************)
(* MTRR resolver                                                           *)
(***************************************************************************)
NumInstances == 2
Instances == 1 .. NumInstances

\* physAddr_ as init() leaves it: 36, or the width CPUID 0x80000008 reports.
PhysAddrWidths == { 36, 39 }

\* The memory types an MTRR can hold: UC, WC, WT, WP, WB.
MtrrTypes == { 0, 1, 4, 5, 6 }
\* What the caller's type variable holds before the call.
CallerTypes == { 0, 6 }

\* hvm_hw_mtrr.msr_mtrr_var is a tuple of words, base then mask of each
\* range; msr_mtrr_fixed is the byte view u8_fixed of the fixed-range MSRs.
VarRange(base, sizeLog2, type) ==
    << BitOr(base, BitsOf(type)), {MTRR_PHYSMASK_VALID_BIT} \cup (sizeLog2 .. 35) >>
FreeRange == << {}, {} >>
FixedBytes == [ i \in 0 .. 87 |-> << 6, 0, 1, 4, 5 >>[(i % 5) + 1] ]

\* def_type: the default type, FE at bit 10 and E at bit 11.
HwMtrrOf(defType, fixedOn, mtrrOn, ranges) ==
    [ msr_mtrr_def_type |-> BitsOf(defType) \cup (IF fixedOn THEN {10} ELSE {})
                                            \cup (IF mtrrOn THEN {11} ELSE {}),
      msr_mtrr_cap |-> BitOr(BitsOf(Len(ranges) \div 2), {8, 10}),
      msr_mtrr_fixed |-> FixedBytes,
      msr_mtrr_var |-> ranges ]

\* [4G, 8G), [4G, 6G), [3G, 4G), [6G, 8G), the page at 4G and six pages
\* below 4G.
RangeA(t) == VarRange({32}, 32, t)
RangeB(t) == VarRange({32}, 31, t)
RangeC(t) == VarRange({30, 31}, 30, t)
RangeD(t) == VarRange({31, 32}, 31, t)
PageAt4G(t) == VarRange({32}, 12, t)
PageBelow4G(k, t) == VarRange({31} \cup BitsOf(k * 4096), 12, t)

MtrrTables ==
    { HwMtrrOf(6, f, TRUE, RangeA(t)) : f \in BOOLEAN, t \in MtrrTypes }
    \cup { HwMtrrOf(6, f, FALSE, RangeA(6)) : f \in BOOLEAN }
    \cup { HwMtrrOf(0, TRUE, TRUE, RangeA(t1) \o RangeB(t2)) : t1 \in MtrrTypes, t2 \in MtrrTypes }
    \cup { HwMtrrOf(6, TRUE, TRUE, RangeB(t1) \o RangeA(t2) \o PageAt4G(t3)) :
              t1 \in { 1, 6 }, t2 \in { 0, 4, 5 }, t3 \in { 4, 6 } }
    \cup { HwMtrrOf(0, FALSE, TRUE, RangeC(t) \o FreeRange) : t \in { 0, 1, 6 } }
    \cup { HwMtrrOf(0, TRUE, TRUE, RangeC(t1) \o FreeRange \o RangeD(t2)) :
              t1 \in { 0, 6 }, t2 \in { 1, 6 } }
    \cup { HwMtrrOf(0, TRUE, TRUE,
                    RangeA(t) \o PageBelow4G(1, 0) \o PageBelow4G(2, 0) \o PageBelow4G(3, 1)
                    \o PageBelow4G(4, 0) \o PageBelow4G(5, 0) \o PageBelow4G(6, 0)
                    \o FreeRange) : t \in { 0, 6 } }
    \cup { HwMtrrOf(0, TRUE, TRUE,
                    RangeA(6) \o RangeC(t) \o FreeRange \o FreeRange \o FreeRange
                    \o FreeRange \o FreeRange \o FreeRange) : t \in { 0, 1 } }

\* The records the domains of several drivers of one process hold.
SharedTables ==
    { HwMtrrOf(6, f, TRUE, RangeA(t)) : f \in BOOLEAN, t \in { 0, 6 } }
    \cup { HwMtrrOf(6, TRUE, FALSE, RangeA(6)),
           HwMtrrOf(0, TRUE, TRUE, RangeA(0) \o RangeB(6)),
           HwMtrrOf(0, FALSE, TRUE, RangeC(1) \o FreeRange) }

\* 0, 0x7FFFF, 0x80000, 0xBFFFF, 0xC0000, 0xFFFFF, 1M, 3G, 4G, 6G.
MtrrAddresses ==
    { {}, 0 .. 18, {19}, {19} \cup (0 .. 17), {18, 19}, 0 .. 19, {20}, {30, 31}, {32},
      {31, 32} }

\* getMtrrRange: the [base, end] page range of a variable MTRR.
getMtrrRange(base_msr, mask_msr, physAddr) ==
    LET mask_lo == Trunc(mask_msr, 32)
        mask_hi == ShiftRight(mask_msr, 32)
        base_lo == Trunc(base_msr, 32)
        base_hi == ShiftRight(base_msr, 32)
    IN  IF BitAnd(mask_lo, W_0x800) = {}
        THEN [ base |-> {}, end |-> {} ]
        ELSE LET size_or_mask ==
                     BitNot(Sub(ShiftLeft(W_1, physAddr - XC_PAGE_SHIFT, 32),
                                W_1, 32), 32)
                 mask == BitOr(size_or_mask,
                               BitOr(ShiftLeft(mask_hi, 32 - XC_PAGE_SHIFT, 32),
                                     ShiftRight(mask_lo, XC_PAGE_SHIFT)))
                 size == Neg(mask, 32)
                 base == BitOr(ShiftLeft(base_hi, 32 - XC_PAGE_SHIFT, 32),
                               ShiftRight(base_lo, XC_PAGE_SHIFT))
             IN  [ base |-> base, end |-> Sub(Add(base, size, 64), W_1, 64) ]

NumVarRanges(hw) == ValOf(BitAnd(hw.msr_mtrr_cap, W_0xff))

\* The condition of the inner loop of isVarMtrrOverlapped.
RangesOverlap(pre, cur) ==
    \/ pre.base # pre.end /\ cur.base # cur.end
    \/ LessEq(pre.base, cur.base) /\ LessEq(cur.base, pre.end)
    \/ LessEq(pre.base, cur.end) /\ LessEq(cur.end, pre.end)
    \/ LessEq(cur.base, pre.base) /\ LessEq(pre.base, cur.end)
    \/ LessEq(cur.base, pre.end) /\ LessEq(pre.end, cur.end)

isVarMtrrOverlapped(hw, physAddr) ==
    LET n == NumVarRanges(hw)
        range(k) == getMtrrRange(hw.msr_mtrr_var[2 * k + 1], hw.msr_mtrr_var[2 * k + 2],
                                 physAddr)
    IN  \E i \in 0 .. (n - 1) : \E seg \in (i + 1) .. (n - 1) :
            RangesOverlap(range(i), range(seg))

\* The part of a record isVarMtrrOverlapped reads: the capability word and
\* the variable-range MSRs.
VarPart(hw) == [ msr_mtrr_cap |-> hw.msr_mtrr_cap, msr_mtrr_var |-> hw.msr_mtrr_var ]

\* isVarMtrrOverlapped tabulated over the records and widths of the model.
OverlappedOf ==
    [ v \in { VarPart(hw) : hw \in MtrrTables }, w \in PhysAddrWidths |->
        isVarMtrrOverlapped(v, w) ]

\* The test of one variable range in the scan of mtrrType.
VarRangeMatches(guestAddress, phys_base, phys_mask) ==
    /\ BitAnd(phys_mask, ShiftLeft(W_1, MTRR_PHYSMASK_VALID_BIT, 32)) # {}
    /\ ShiftRight(BitAnd(guestAddress, phys_mask), MTRR_PHYSMASK_SHIFT)
         = ShiftRight(BitAnd(phys_base, phys_mask), MTRR_PHYSMASK_SHIFT)

RECURSIVE ScanVarRanges(_, _, _, _, _, _)
\* The for loop of mtrrType from range seg on: either the value of its
\* return statement, or overlap_mtrr (a uint8_t, as a word) and
\* overlap_mtrr_pos after the loop.
ScanVarRanges(hw, guestAddress, overlapped, seg, overlap_mtrr, overlap_mtrr_pos) ==
    IF seg >= NumVarRanges(hw)
    THEN [ returned |-> FALSE, overlap_mtrr |-> overlap_mtrr,
           overlap_mtrr_pos |-> overlap_mtrr_pos ]
    ELSE LET phys_base == hw.msr_mtrr_var[2 * seg + 1]
             phys_mask == hw.msr_mtrr_var[2 * seg + 2]
             type == ValOf(BitAnd(phys_base, MTRR_PHYSBASE_TYPE_MASK))
         IN  IF ~VarRangeMatches(guestAddress, phys_base, phys_mask)
             THEN ScanVarRanges(hw, guestAddress, overlapped, seg + 1,
                                overlap_mtrr, overlap_mtrr_pos)
             ELSE IF overlapped
             THEN ScanVarRanges(hw, guestAddress, overlapped, seg + 1,
                                BitOr(overlap_mtrr, Trunc(ShiftLeft(W_1, type, 32), 8)),
                                type)
             ELSE [ returned |-> TRUE, value |-> type ]

\* The tail of mtrrType with 0xbf in place of 0xaf.
OverlapTypeWrongMask(def_type, overlap_mtrr, overlap_mtrr_pos) ==
    IF overlap_mtrr = {} THEN def_type
    ELSE IF BitAnd(overlap_mtrr, BitNot({overlap_mtrr_pos}, 32)) = {} THEN overlap_mtrr_pos
    ELSE IF BitAnd(overlap_mtrr, W_1) # {} THEN MTRR_TYPE_UNCACHABLE
    ELSE IF BitAnd(overlap_mtrr, W_0xbf) = {} THEN MTRR_TYPE_WRTHROUGH
    ELSE overlap_mtrr_pos

\* The tail of mtrrType, after the scan: the value assigned to type.
OverlapType(def_type, overlap_mtrr, overlap_mtrr_pos) ==
    IF overlap_mtrr = {} THEN def_type
    ELSE IF BitAnd(overlap_mtrr, BitNot({overlap_mtrr_pos}, 32)) = {} THEN overlap_mtrr_pos
    ELSE IF BitAnd(overlap_mtrr, W_1) # {} THEN MTRR_TYPE_UNCACHABLE
    ELSE IF BitAnd(overlap_mtrr, W_0xaf) = {} THEN MTRR_TYPE_WRTHROUGH
    ELSE overlap_mtrr_pos

\* The index into u8_fixed of an address below 1 MiB.
FixedIndex(addr) ==
    IF addr < 524288 THEN addr \div 65536
    ELSE IF addr < 786432
    THEN LET seg == (addr - 524288) \div 16384
             index == (seg \div 8) + 1
         IN  index * 8 + (seg % 8)
    ELSE LET seg == (addr - 786432) \div 4096
             index == (seg \div 8) + 3
         IN  index * 8 + (seg % 8)

\* mtrrType once the record is there: the bool it returns and the content of
\* the caller's type variable afterwards.  A return statement that carries a
\* uint8_t returns "it is not zero" and leaves type as the caller had it.
ResolveType(hw, overlapped, guestAddress, typeIn) ==
    LET def_type == ValOf(BitAnd(hw.msr_mtrr_def_type, W_0xff))
        enabled == Trunc(ShiftRight(hw.msr_mtrr_def_type, 10), 8)
    IN  IF BitAnd(enabled, W_2) = {}
        THEN [ ret |-> TRUE, type |-> MTRR_TYPE_UNCACHABLE ]
        ELSE IF Less(guestAddress, W_0x100000) /\ BitAnd(enabled, W_1) # {}
        THEN [ ret |-> hw.msr_mtrr_fixed[FixedIndex(ValOf(Trunc(guestAddress, 32)))] # 0,
               type |-> typeIn ]
        ELSE LET scan == ScanVarRanges(hw, guestAddress, overlapped, 0, {}, 0)
             IN  IF scan.returned
                 THEN [ ret |-> scan.value # 0, type |-> typeIn ]
                 ELSE [ ret |-> TRUE,
                        type |-> OverlapType(def_type, scan.overlap_mtrr,
                                             scan.overlap_mtrr_pos) ]

\* hwMtrrInit after a fetch that is never recorded.
InitFlagNeverSet(fetchOk) == FALSE

\* hwMtrrInit after the fetch of an mtrrType call that found it false.
InitFlagAfterFetch(fetchOk) == fetchOk

MtrrNoCall == [ op |-> "none", inst |-> 1, address |-> {}, typeIn |-> 0,
                ret |-> FALSE, type |-> 0, fetchCalls |-> 0 ]

MtrrInit ==
    /\ physAddr_ \in PhysAddrWidths
    /\ hwMtrrInit = FALSE
    /\ hwMtrr = HwMtrrOf(0, FALSE, FALSE, << >>)
    /\ mtrrFetched = << >>
    /\ mtrrLast = MtrrNoCall

MtrrCall(i, guestAddress, typeIn) ==
    [ MtrrNoCall EXCEPT !.op = "mtrrType", !.inst = i, !.address = guestAddress,
                        !.typeIn = typeIn, !.type = typeIn ]

\* mtrrType on driver i while hwMtrrInit is false; fetched is the record the
\* hypervisor holds for the driver's domain and fetchOk whether
\* xc_domain_hvm_getcontext_partial succeeds.
MtrrTypeFetching(i, guestAddress, typeIn, fetched, fetchOk) ==
    /\ ~hwMtrrInit
    /\ hwMtrrInit' = InitFlagAfterFetch(fetchOk)
    /\ hwMtrr' = IF fetchOk THEN fetched ELSE hwMtrr
    /\ mtrrFetched' = IF fetchOk /\ Len(mtrrFetched) < 2 THEN Append(mtrrFetched, i)
                      ELSE mtrrFetched
    /\ IF fetchOk
       THEN LET r == ResolveType(fetched, OverlappedOf[VarPart(fetched), physAddr_],
                                 guestAddress, typeIn)
            IN  mtrrLast' = [ MtrrCall(i, guestAddress, typeIn) EXCEPT
                                !.ret = r.ret, !.type = r.type, !.fetchCalls = 1 ]
       ELSE mtrrLast' = [ MtrrCall(i, guestAddress, typeIn) EXCEPT
                            !.ret = FALSE, !.fetchCalls = 1 ]
    /\ UNCHANGED << xenVersion, ctxVars, msrVars, regsVars, mapVars, accVars, physAddr_ >>

\* mtrrType on driver i once hwMtrrInit is true.
MtrrTypeCached(i, guestAddress, typeIn) ==
    /\ hwMtrrInit
    /\ LET r == ResolveType(hwMtrr, OverlappedOf[VarPart(hwMtrr), physAddr_], guestAddress, typeIn)
       IN  mtrrLast' = [ MtrrCall(i, guestAddress, typeIn) EXCEPT
                           !.ret = r.ret, !.type = r.type ]
    /\ UNCHANGED << xenVersion, ctxVars, msrVars, regsVars, mapVars, accVars, physAddr_,
                    hwMtrrInit, hwMtrr, mtrrFetched >>

(***************************************************************************)
(* MSR exits                                                               *)
(***************************************************************************)
MaxMsr == 4
\* The MSR numbers the controller asks about.
MsrIds == 1 .. MaxMsr

MsrNoCall == [ op |-> "none", msr |-> 0, ret |-> FALSE, oldValue |-> FALSE, before |-> {} ]

MsrInit == msrs_ = {} /\ msrLast = MsrNoCall

\* msrs_ after an insert that adds nothing.
MsrsAfterInsertLost(set, msr) == set

\* msrs_ after msrs_.insert( msr ) returns.
MsrsAfterInsert(set, msr) == set \cup { msr }

\* msrs_ after msrs_.erase( it ), it being the position of msr.
MsrsAfterErase(set, msr) == set \ { msr }

\* enableMsrExit; insertThrows is whether the allocation of the new node
\* throws, which the catch turns into a false return.
EnableMsrExit(msr, insertThrows) ==
    /\ IF msr \in msrs_
       THEN /\ msrLast' = [ op |-> "enable", msr |-> msr, ret |-> TRUE, oldValue |-> TRUE,
                            before |-> msrs_ ]
            /\ msrs_' = msrs_
       ELSE IF insertThrows
       THEN /\ msrLast' = [ op |-> "enable", msr |-> msr, ret |-> FALSE, oldValue |-> FALSE,
                            before |-> msrs_ ]
            /\ msrs_' = msrs_
       ELSE /\ msrLast' = [ op |-> "enable", msr |-> msr, ret |-> TRUE, oldValue |-> FALSE,
                            before |-> msrs_ ]
            /\ msrs_' = MsrsAfterInsert(msrs_, msr)
    /\ UNCHANGED << xenVersion, ctxVars, regsVars, mapVars, accVars, mtrrVars >>

\* disableMsrExit; find and erase of a position do not throw.
DisableMsrExit(msr) ==
    /\ IF msr \in msrs_
       THEN /\ msrLast' = [ op |-> "disable", msr |-> msr, ret |-> TRUE, oldValue |-> TRUE,
                            before |-> msrs_ ]
            /\ msrs_' = MsrsAfterErase(msrs_, msr)
       ELSE /\ msrLast' = [ op |-> "disable", msr |-> msr, ret |-> TRUE, oldValue |-> FALSE,
                            before |-> msrs_ ]
            /\ msrs_' = msrs_
    /\ UNCHANGED << xenVersion, ctxVars, regsVars, mapVars, accVars, mtrrVars >>

(***************************************************************************)
(* Register write-back                                                     *)
(***************************************************************************)
\* The vcpus setRegisters is called for.
CtxVcpus == { 0, 1 }

\* The general-purpose registers of the two layouts of
\* vcpu_guest_context_any_t, the instruction pointer, and fields of the
\* context that are neither.
Gpr32 == { "eax", "ecx", "edx", "ebx", "esp", "ebp", "esi", "edi" }
Gpr64 == { "rax", "rcx", "rdx", "rbx", "rsp", "rbp", "rsi", "rdi",
           "r8", "r9", "r10", "r11", "r12", "r13", "r14", "r15" }
OtherCtxFields == { "eflags", "cs", "ctrlreg" }
X32Fields == Gpr32 \cup { "eip" } \cup OtherCtxFields
X64Fields == Gpr64 \cup { "eip" } \cup OtherCtxFields
CtxFields(width) == IF width = 4 THEN X32Fields ELSE X64Fields

\* The width in bits of the user_regs fields of each layout.
RegBits(width) == IF width = 4 THEN 32 ELSE 64

\* The field of Registers each assignment of setRegisters reads.
RegsFieldOf(f) ==
    CASE f = "eax" -> "rax" [] f = "ecx" -> "rcx" [] f = "edx" -> "rdx" [] f = "ebx" -> "rbx"
      [] f = "esp" -> "rsp" [] f = "ebp" -> "rbp" [] f = "esi" -> "rsi" [] f = "edi" -> "rdi"
      [] f = "eip" -> "rip" [] OTHER -> f

\* Registers the controller passes: small distinct values, values with bits
\* above bit 31, and all zero.
SetRegsSmall ==
    [ f \in Gpr64 \cup { "rip" } |->
        CASE f = "rax" -> { 0 } [] f = "rcx" -> { 1 } [] f = "rdx" -> { 0, 1 } [] f = "rbx" -> { 2 }
          [] f = "rsp" -> { 12 } [] f = "rbp" -> { 12, 0 } [] f = "rsi" -> { 4 } [] f = "rdi" -> { 5 }
          [] f = "rip" -> { 20, 2 } [] OTHER -> { 7 } ]
SetRegsWide ==
    [ f \in Gpr64 \cup { "rip" } |->
        CASE f = "rax" -> { 31, 32 } [] f = "rcx" -> { 40 } [] f = "rdx" -> 0 .. 63
          [] f = "rbx" -> { 3, 33 } [] f = "rsp" -> { 13, 47 } [] f = "rbp" -> { 13, 4, 47 }
          [] f = "rsi" -> { 63 } [] f = "rdi" -> { 6, 31 } [] f = "rip" -> { 21, 47, 48 }
          [] OTHER -> { 8, 36 } ]
SetRegsZero == [ f \in Gpr64 \cup { "rip" } |-> {} ]
SetRegsInputs == { SetRegsSmall, SetRegsWide, SetRegsZero }

\* Contexts the guest is in when the session starts.
GuestCtxA(width) ==
    [ f \in CtxFields(width) |->
        CASE f = "eip" -> { 22 } [] f = "eflags" -> { 1, 9 } [] f = "cs" -> { 3 }
          [] f = "ctrlreg" -> { 0, 4, 31 } [] OTHER -> { 10 } ]
GuestCtxB(width) ==
    [ f \in CtxFields(width) |->
        CASE f = "eip" -> { 16, 23 } [] f = "eflags" -> { 1 } [] f = "cs" -> { 3, 4 }
          [] f = "ctrlreg" -> { 0 } [] OTHER -> { 11, 14 } ]

SetNoCall == [ op |-> "none", vcpu |-> 0, regs |-> SetRegsZero, setEip |-> FALSE,
               ret |-> FALSE, fetched |-> << >>, stored |-> << >>, setCalls |-> 0 ]

CtxInit ==
    /\ guestWidth_ \in { 4, 8 }
    /\ vcpuCtxt = [ v \in CtxVcpus |-> IF v = 0 THEN GuestCtxA(guestWidth_)
                                       ELSE GuestCtxB(guestWidth_) ]
    /\ setLast = SetNoCall

\* The instruction pointer field of a context whose eip is assigned whatever
\* setEip is.
EipAfterAlways(ctxtEip, regs, setEip, width) == Trunc(regs["rip"], RegBits(width))

\* The instruction pointer field of ctxt after the if ( setEip ) statement.
EipAfter(ctxtEip, regs, setEip, width) ==
    IF setEip THEN Trunc(regs["rip"], RegBits(width)) ELSE ctxtEip

\* ctxt after the assignments of setRegisters: each general-purpose register
\* of the layout takes the Registers field converted to the field's width.
CtxtAfterAssignments(ctxt, regs, setEip, width) ==
    [ f \in DOMAIN ctxt |->
        IF f \in (IF width = 4 THEN Gpr32 ELSE Gpr64)
        THEN Trunc(regs[RegsFieldOf(f)], RegBits(width))
        ELSE IF f = "eip" THEN EipAfter(ctxt[f], regs, setEip, width)
        ELSE ctxt[f] ]

\* setRegisters; getOk and setOk are whether xc_vcpu_getcontext and
\* xc_vcpu_setcontext succeed.
SetRegisters(vcpu, regs, setEip, getOk, setOk) ==
    /\ IF ~getOk
       THEN /\ setLast' = [ SetNoCall EXCEPT !.op = "setRegisters", !.vcpu = vcpu,
                                             !.regs = regs, !.setEip = setEip ]
            /\ vcpuCtxt' = vcpuCtxt
       ELSE LET ctxt == CtxtAfterAssignments(vcpuCtxt[vcpu], regs, setEip, guestWidth_)
            IN  /\ setLast' = [ op |-> "setRegisters", vcpu |-> vcpu, regs |-> regs,
                                setEip |-> setEip, ret |-> setOk,
                                fetched |-> vcpuCtxt[vcpu], stored |-> ctxt, setCalls |-> 1 ]
                /\ vcpuCtxt' = IF setOk THEN [ vcpuCtxt EXCEPT ![vcpu] = ctxt ]
                               ELSE vcpuCtxt
    /\ UNCHANGED << xenVersion, msrVars, regsVars, mapVars, accVars, mtrrVars, guestWidth_ >>

(***************************************************************************)
(* Specifications and properties                                           *)
(***************************************************************************)
SpecRegsInit == xenVersion \in XenVersions /\ RegsInit /\ MapInit /\ AccInit /\ MtrrInit /\ MsrInit /\ guestWidth_ = 8 /\ CtxInit
SpecRegsNext == RegistersOk \/ RegistersFail
SpecRegs == SpecRegsInit /\ [][SpecRegsNext]_vars

RegsPE == BitAnd(regsLast.regs.cr0, X86_CR0_PE) # {}
RegsVM == BitAnd(regsLast.regs.rflags, X86_EFLAGS_VM) # {}
RegsLMA == BitAnd(regsLast.regs.msr_efer, EFER_LMA) # {}
RegsCsL == BitAnd(regsLast.regs.cs_arbytes, CS_AR_BYTES_L) # {}
RegsCsD == BitAnd(regsLast.regs.cs_arbytes, CS_AR_BYTES_D) # {}
RegsDerivedRead == regsLast.called /\ regsLast.ret /\ DerivedModeBuild

\* C2: on the derived-mode path, a guest in real mode (cr0.PE clear) or in
\* virtual-8086 mode (PE set, rflags.VM set) is reported as 16-bit.
C2_RealAndV86Are16Bit ==
    (RegsDerivedRead /\ (~RegsPE \/ RegsVM)) => regsLast.regs.guest_x86_mode = "CS_TYPE_16"

\* C3: on the derived-mode path, with PE set and VM clear, the mode is 64-bit
\* exactly when EFER.LMA and CS.L are both set, else 32-bit when CS.D is set
\* and 16-bit when it is clear.
C3_ProtectedModeDecision ==
    (RegsDerivedRead /\ RegsPE /\ ~RegsVM) =>
        regsLast.regs.guest_x86_mode =
            (IF RegsLMA /\ RegsCsL THEN "CS_TYPE_64"
             ELSE IF RegsCsD THEN "CS_TYPE_32" ELSE "CS_TYPE_16")

\* A protected-mode read where both CS.L with LMA and CS.D are set: the
\* long-mode test has to win.
C3_Witness ==
    RegsDerivedRead /\ RegsPE /\ ~RegsVM /\ RegsLMA /\ RegsCsL /\ RegsCsD
    /\ regsLast.regs.guest_x86_mode = "CS_TYPE_64"

SpecMapInit == xenVersion = XEN_4_6 /\ RegsInit /\ MapInit /\ AccInit /\ MtrrInit /\ MsrInit /\ guestWidth_ = 8 /\ CtxInit
\* Mapping calls over every length of MapLengths, the virtual ones for vcpu 0.
SpecMapNext ==
    \/ \E a \in MapAddresses, l \in MapLengths : MapPhysMemToHost(a, l)
    \/ \E a \in MapAddresses, l \in MapLengths : MapVirtMemToHost(a, l, 0)
    \/ \E a \in MapAddresses : CacheGuestVirtAddr(a)
SpecMap == SpecMapInit /\ [][SpecMapNext]_vars

\* Virtual mapping calls for every vcpu over the lengths of CacheLengths,
\* between cacheGuestVirtAddr calls.
SpecMapCacheNext ==
    \/ \E a \in MapAddresses, l \in CacheLengths, v \in Vcpus : MapVirtMemToHost(a, l, v)
    \/ \E a \in MapAddresses : CacheGuestVirtAddr(a)
SpecMapCache == SpecMapInit /\ [][SpecMapCacheNext]_vars

\* The page of the last byte of [address, address + length - 1] in 64-bit
\* address arithmetic.
SpanEndPage(address, length) ==
    ShiftRight(Sub(Add(address, length, 64), BitsOf(1), 64), XC_PAGE_SHIFT)
LastSpanCrosses ==
    ShiftRight(mapLast.address, XC_PAGE_SHIFT) # SpanEndPage(mapLast.address, mapLast.length)
LastIsMap == mapLast.op \in { "mapPhys", "mapVirt" }

\* C1: a mapping call whose span has its first and last byte in different
\* pages returns MAP_INVALID_PARAMETER and makes no page cache call.
C1_CrossPageRejected ==
    (LastIsMap /\ LastSpanCrosses) =>
        (mapLast.ret = "MAP_INVALID_PARAMETER" /\ mapLast.updateCalls = 0)

\* A two byte span over the 0xFFF/0x1000 boundary was rejected by
\* mapVirtMemToHost although the address is cached.
C1_Witness ==
    /\ mapLast.op = "mapVirt" /\ mapLast.address = 0 .. 11 /\ mapLast.length = BitsOf(2)
    /\ mapLast.address \in DOMAIN addressCache
    /\ mapLast.ret = "MAP_INVALID_PARAMETER"

LastVirtInPage == mapLast.op = "mapVirt" /\ ~LastSpanCrosses

\* C4: once cacheGuestVirtAddr(A) has returned true, a mapVirtMemToHost(A, ...)
\* whose span lies in one page makes no translation call and hands the
\* recorded frame to the page cache.
C4_PrefetchedNotTranslated ==
    (LastVirtInPage /\ mapLast.address \in DOMAIN prefetched) =>
        /\ mapLast.translateCalls = 0
        /\ mapLast.updateCalls = 1
        /\ mapLast.gfn = prefetched[mapLast.address]

C4_Witness ==
    /\ LastVirtInPage /\ mapLast.address \in DOMAIN prefetched
    /\ mapLast.vcpu = 1 /\ mapLast.ret = "MAP_SUCCESS"
    /\ mapLast.pointer.frame = prefetched[mapLast.address]

\* C5 as stated: after a mapVirtMemToHost that missed the cache and whose
\* translation succeeded, the address is in the cache with that frame.
C5_MissIsRecorded ==
    (LastVirtInPage /\ mapLast.translateCalls = 1 /\ mapLast.translated # {}) =>
        /\ mapLast.address \in DOMAIN addressCache
        /\ addressCache[mapLast.address] = mapLast.translated

\* C5 amended: a mapVirtMemToHost on an address that is not in the cache
\* makes one translation call and leaves the cache as it was, so the next
\* mapVirtMemToHost of the address translates again.
C5_MissTranslatesAndLeavesCache ==
    [][ (mapLast'.op = "mapVirt" /\ mapLast'.updateCalls + mapLast'.translateCalls > 0
         /\ mapLast'.address \notin DOMAIN addressCache)
        => (mapLast'.translateCalls = 1 /\ addressCache' = addressCache) ]_vars

\* The address is still absent after a call that translated it successfully
\* and mapped the page.
C5_Witness ==
    /\ LastVirtInPage /\ mapLast.translateCalls = 1 /\ mapLast.translated # {}
    /\ mapLast.ret = "MAP_SUCCESS"
    /\ mapLast.address \notin DOMAIN addressCache

SpecAccessInit == xenVersion \in { XEN_4_4, XEN_4_5 } /\ RegsInit /\ MapInit /\ AccInit /\ MtrrInit /\ MsrInit /\ guestWidth_ = 8 /\ CtxInit
SpecAccessNext ==
    \/ \E a \in AccessAddresses, r \in BOOLEAN, w \in BOOLEAN, x \in BOOLEAN :
          SetPageProtection(a, r, w, x)
    \/ \E a \in AccessAddresses : GetPageProtection(a)
    \/ \E f \in AccessFrames, m \in HypervisorAccess : AccessChangedElsewhere(f, m)
SpecAccess == SpecAccessInit /\ [][SpecAccessNext]_vars

\* C10: a successful getPageProtection on a frame whose access type was last
\* changed by a successful setPageProtection(r, w, x) returns << r, w, x >>,
\* and setPageProtection never asks for access_rx2rw.
C10_SetGetRoundTrip ==
    /\ (accLast.op = "get" /\ accLast.ret /\ paddr_to_pfn(accLast.address) \in DOMAIN lastSet)
          => accLast.triple = lastSet[paddr_to_pfn(accLast.address)]
    /\ accLast.op = "set" => accLast.memaccess # "access_rx2rw"

\* read-execute was set through 0x1000 and read back through 0x1FFF.
C10_Witness ==
    /\ accLast.op = "get" /\ accLast.ret /\ accLast.address = 0 .. 12
    /\ paddr_to_pfn(accLast.address) \in DOMAIN lastSet
    /\ accLast.triple = << TRUE, FALSE, TRUE >>
    /\ memAccess[paddr_to_pfn(accLast.address)] = "access_rx"

SpecMtrrInit == xenVersion = XEN_4_6 /\ RegsInit /\ MapInit /\ AccInit /\ MtrrInit /\ MsrInit /\ guestWidth_ = 8 /\ CtxInit
\* mtrrType calls of one driver, over every record of MtrrTables.
SpecMtrrNext ==
    \/ \E a \in MtrrAddresses, t \in CallerTypes, hw \in MtrrTables, ok \in BOOLEAN :
          MtrrTypeFetching(1, a, t, hw, ok)
    \/ \E a \in MtrrAddresses, t \in CallerTypes : MtrrTypeCached(1, a, t)
SpecMtrr == SpecMtrrInit /\ [][SpecMtrrNext]_vars

\* mtrrType calls of every driver of the process, over the records of
\* SharedTables.
SpecMtrrSharedNext ==
    \/ \E i \in Instances, a \in MtrrAddresses, t \in CallerTypes, hw \in SharedTables,
          ok \in BOOLEAN : MtrrTypeFetching(i, a, t, hw, ok)
    \/ \E i \in Instances, a \in MtrrAddresses, t \in CallerTypes : MtrrTypeCached(i, a, t)
SpecMtrrShared == SpecMtrrInit /\ [][SpecMtrrSharedNext]_vars

\* The last call got as far as resolving a type from the static record.
MtrrResolved == mtrrLast.op = "mtrrType" /\ hwMtrrInit
MtrrEnabled == 11 \in hwMtrr.msr_mtrr_def_type
MtrrFixedEnabled == 10 \in hwMtrr.msr_mtrr_def_type
LastBelow1M == mtrrLast.address \subseteq 0 .. 19
LastFixedResolved == MtrrFixedEnabled /\ LastBelow1M

\* C6: the MTRR record is fetched successfully at most once; once it is
\* there, no mtrrType call on any driver fetches again, the record stays as
\* fetched and every result is resolved from it.
C6_FetchedOnce ==
    /\ [](Len(mtrrFetched) <= 1)
    /\ [][ hwMtrrInit =>
             /\ hwMtrrInit' /\ hwMtrr' = hwMtrr
             /\ mtrrLast'.fetchCalls = 0
             /\ LET r == ResolveType(hwMtrr, OverlappedOf[VarPart(hwMtrr), physAddr_],
                                     mtrrLast'.address, mtrrLast'.typeIn)
                IN  mtrrLast'.ret = r.ret /\ mtrrLast'.type = r.type ]_vars

\* Driver 1 fetched the record and a later call on driver 2 resolved a type
\* without fetching.
C6_Witness ==
    /\ mtrrFetched = << 1 >> /\ hwMtrrInit
    /\ mtrrLast.op = "mtrrType" /\ mtrrLast.inst = 2 /\ mtrrLast.fetchCalls = 0
    /\ mtrrLast.ret

\* The fixed-table index the three bands give an address below 1 MiB.
BandIndex(addr) ==
    IF addr < 524288 THEN addr \div 65536
    ELSE IF addr < 786432 THEN 8 + ((addr - 524288) \div 16384)
    ELSE 24 + ((addr - 786432) \div 4096)

\* C7: with MTRRs and fixed ranges enabled, an address below 1 MiB resolves
\* with success to the fixed-table byte its band selects.
C7_FixedRangeType ==
    (MtrrResolved /\ MtrrEnabled /\ MtrrFixedEnabled /\ LastBelow1M) =>
        /\ mtrrLast.ret
        /\ mtrrLast.type = hwMtrr.msr_mtrr_fixed[BandIndex(ValOf(mtrrLast.address))]

\* The valid variable ranges whose mask selects the last call's address, and
\* the type each holds.
RangeBase(k) == hwMtrr.msr_mtrr_var[2 * k + 1]
RangeMask(k) == hwMtrr.msr_mtrr_var[2 * k + 2]
RangeType(k) == ValOf(RangeBase(k) \cap (0 .. 7))
MatchingRanges ==
    { k \in 0 .. ((Len(hwMtrr.msr_mtrr_var) \div 2) - 1) :
        /\ 11 \in RangeMask(k)
        /\ \A b \in RangeMask(k) \cap (12 .. 63) :
              (b \in mtrrLast.address) <=> (b \in RangeBase(k)) }
MatchingTypes == { RangeType(k) : k \in MatchingRanges }
LastMatching == CHOOSE k \in MatchingRanges : \A j \in MatchingRanges : j <= k
VariableScanned == MtrrResolved /\ MtrrEnabled /\ ~LastFixedResolved

\* C8: when exactly one valid variable range matches the address, the call
\* succeeds and the type it gives is that range's type.
C8_SingleMatchType ==
    (VariableScanned /\ Cardinality(MatchingRanges) = 1) =>
        /\ mtrrLast.ret
        /\ mtrrLast.type = RangeType(LastMatching)

SpecMsrInit == xenVersion = XEN_4_6 /\ RegsInit /\ MapInit /\ AccInit /\ MtrrInit /\ MsrInit /\ guestWidth_ = 8 /\ CtxInit
SpecMsrNext ==
    \/ \E m \in MsrIds, throws \in BOOLEAN : EnableMsrExit(m, throws)
    \/ \E m \in MsrIds : DisableMsrExit(m)
SpecMsr == SpecMsrInit /\ [][SpecMsrNext]_vars

MsrCalled == msrLast.op # "none"
MsrOthersKept == \A m \in MsrIds \ { msrLast.msr } : (m \in msrs_) <=> (m \in msrLast.before)

\* C11: every enableMsrExit / disableMsrExit call reports in oldValue whether
\* the msr was in the set when the call began and leaves every other msr as
\* it was; after a disable the msr is not in the set, after an enable that
\* returns true it is, and the only call that returns false is an enable
\* whose insertion threw, which reports oldValue false and leaves the set as
\* it was.
C11_MsrSetContract ==
    MsrCalled =>
        /\ msrLast.oldValue = (msrLast.msr \in msrLast.before)
        /\ MsrOthersKept
        /\ msrLast.op = "disable" => msrLast.ret /\ msrLast.msr \notin msrs_
        /\ msrLast.op = "enable" /\ msrLast.ret => msrLast.msr \in msrs_
        /\ ~msrLast.ret => msrLast.op = "enable" /\ msrs_ = msrLast.before

\* An enable of msr 2 that found it in the set already, next to msr 3.
C11_Witness ==
    /\ msrLast.op = "enable" /\ msrLast.ret /\ msrLast.oldValue
    /\ msrLast.msr = 2 /\ msrs_ = { 2, 3 }

SpecSetRegsInit ==
    xenVersion = XEN_4_6 /\ RegsInit /\ MapInit /\ AccInit /\ MtrrInit /\ MsrInit /\ CtxInit
SpecSetRegsNext ==
    \E v \in CtxVcpus, regs \in SetRegsInputs, setEip \in BOOLEAN, getOk \in BOOLEAN,
       setOk \in BOOLEAN : SetRegisters(v, regs, setEip, getOk, setOk)
SpecSetRegs == SpecSetRegsInit /\ [][SpecSetRegsNext]_vars

\* The last call was a setRegisters that returned true in a session of guest
\* word size 4.
SetOk32 == setLast.op = "setRegisters" /\ setLast.ret /\ guestWidth_ = 4

\* C12: with guest word size 4, a setRegisters that returns true hands back,
\* and the hypervisor then holds, a context in which eax, ecx, edx, ebx, esp,
\* ebp, esi, edi are the snapshot's rax .. rdi as 32-bit values, eip is the
\* snapshot's rip as a 32-bit value if setEip and the fetched eip if not,
\* and every other field is as fetched; the context has no field that takes
\* r8 .. r15.
C12_SetRegisters32 ==
    SetOk32 =>
        /\ setLast.setCalls = 1 /\ vcpuCtxt[setLast.vcpu] = setLast.stored
        /\ DOMAIN setLast.stored = DOMAIN setLast.fetched
        /\ \A f \in Gpr32 : setLast.stored[f] = Trunc(setLast.regs[RegsFieldOf(f)], 32)
        /\ \A f \in Gpr32 : setLast.regs[RegsFieldOf(f)] \subseteq 0 .. 31
                                => setLast.stored[f] = setLast.regs[RegsFieldOf(f)]
        /\ setLast.stored["eip"] = IF setLast.setEip THEN Trunc(setLast.regs["rip"], 32)
                                   ELSE setLast.fetched["eip"]
        /\ \A f \in DOMAIN setLast.stored \ (Gpr32 \cup { "eip" }) :
              setLast.stored[f] = setLast.fetched[f]
        /\ DOMAIN setLast.stored \cap Gpr64 = {}

\* A 32-bit write-back without setEip (eip stays the guest's 0x400000) after
\* an earlier one had changed the registers of the same vcpu.
C12_Witness ==
    /\ SetOk32 /\ ~setLast.setEip /\ setLast.regs = SetRegsSmall
    /\ setLast.fetched["eax"] = {} /\ setLast.fetched["eip"] = { 22 }
    /\ vcpuCtxt[setLast.vcpu]["eax"] = { 0 } /\ vcpuCtxt[setLast.vcpu]["eip"] = { 22 }

\* The [base, end] page range getMtrrRange gives variable range k of the
\* static record.
LastRange(k) ==
    getMtrrRange(hwMtrr.msr_mtrr_var[2 * k + 1], hwMtrr.msr_mtrr_var[2 * k + 2], physAddr_)
RangesIntersect(a, b) == LessEq(a.base, b.end) /\ LessEq(b.base, a.end)
SomePairIntersects ==
    \E i \in 0 .. (NumVarRanges(hwMtrr) - 1) : \E seg \in (i + 1) .. (NumVarRanges(hwMtrr) - 1) :
        RangesIntersect(LastRange(i), LastRange(seg))

\* C13: the overlap flag mtrrType computes for the record it resolves from
\* is true exactly when two of the record's variable ranges have [base, end]
\* page ranges that intersect.
C13_OverlapFlagExact ==
    MtrrResolved => (OverlappedOf[VarPart(hwMtrr), physAddr_] <=> SomePairIntersects)

\* C14: the translation cache holds exactly the addresses for which a
\* cacheGuestVirtAddr call returned true, each with the frame of the latest
\* such call, which translated for vcpu 0; no other call adds, removes or
\* changes an entry.  A mapVirtMemToHost of a cached address, whatever its
\* vcpu argument, asks for no translation and uses the recorded frame.
C14_CacheKeyedByAddress ==
    /\ addressCache = prefetched
    /\ (mapLast.op = "cacheVirt" /\ mapLast.ret) =>
          /\ mapLast.vcpu = 0 /\ mapLast.translateCalls = 1
          /\ addressCache[mapLast.address] = mapLast.translated
    /\ \A v \in Vcpus :
          (LastVirtInPage /\ mapLast.vcpu = v /\ mapLast.address \in DOMAIN addressCache) =>
              /\ mapLast.translateCalls = 0 /\ mapLast.translated = {}
              /\ mapLast.gfn = addressCache[mapLast.address]

\* Two addresses are cached with different frames and a mapVirtMemToHost for
\* vcpu 1 mapped the frame recorded for its address.
C14_Witness ==
    /\ mapLast.op = "mapVirt" /\ mapLast.vcpu = 1 /\ mapLast.ret = "MAP_SUCCESS"
    /\ mapLast.address = { 12 } /\ mapLast.translateCalls = 0
    /\ DOMAIN addressCache = { { 12 }, 0 .. 11 }
    /\ addressCache[{ 12 }] = { 1 } /\ addressCache[0 .. 11] = { 0 }
    /\ mapLast.gfn = { 1 }
====
